---- MODULE Spec2Model ----
(***************************************************************************)
(* Model of src/src/components/RegistrationForm.tsx: the zod validation    *)
(* schema, the phone mask (formatPhone), and the form controller built on  *)
(* react-hook-form (useForm with zodResolver, mode "onBlur") with its      *)
(* submit handler onSubmit.                                                *)
(*                                                                         *)
(* Text is modelled as a sequence of character codes (UTF-16 code units),  *)
(* so that the regular expressions of the source are sets of codes.        *)
(***************************************************************************)
EXTENDS Integers, Sequences, FiniteSets, TLC

VARIABLES
    values,         \* react-hook-form _formValues: nome, sobrenome, email, celular
    errors,         \* formState.errors: per field, the message shown ("" = none)
    isSubmitted,    \* formState.isSubmitted (selects mode / reValidateMode)
    submitStatus,   \* useState<SubmitStatus>("idle")
    statusMessage,  \* useState("")
    pending,        \* handleSubmit invocations awaiting the resolver's promise
    pc,             \* position inside onSubmit ("none" = no handler running)
    cur,            \* the onSubmit run in progress: data, payload, status at entry
    requests,       \* every POST handed to fetch, in order, with how it has settled
    input,          \* argument of the pure function under check
    output          \* its result (<<>> before it is applied)

vars == << values, errors, isSubmitted, submitStatus, statusMessage, pending,
           pc, cur, requests, input, output >>

formVars == << values, errors, isSubmitted, submitStatus, statusMessage, pending,
               pc, cur, requests >>

(***************************************************************************)
(* Characters                                                              *)
(***************************************************************************)
LPAREN == 40
RPAREN == 41
SPACE == 32
HYPHEN == 45
DOT == 46
AT == 64

\* \d
Digit == 48..57
\* \s of ECMAScript (WhiteSpace and LineTerminator); String.prototype.trim
\* strips the same set
WhiteSpaceChar == {9, 10, 11, 12, 13, 32, 160, 5760, 8232, 8233, 8239, 8287, 12288, 65279}
                     \cup (8192..8202)
\* [a-zA-ZÀ-ÿ\s] : À is U+00C0 = 192, ÿ is U+00FF = 255
NameCharClass == (97..122) \cup (65..90) \cup (192..255) \cup WhiteSpaceChar

Min(a, b) == IF a < b THEN a ELSE b

\* String.prototype.slice(start, end) for 0 <= start <= end
slice(s, start, end) == SubSeq(s, start + 1, Min(end, Len(s)))

RECURSIVE trimStart(_)
trimStart(s) == IF s # <<>> /\ Head(s) \in WhiteSpaceChar THEN trimStart(Tail(s)) ELSE s

RECURSIVE trimEnd(_)
trimEnd(s) ==
    IF s # <<>> /\ s[Len(s)] \in WhiteSpaceChar THEN trimEnd(SubSeq(s, 1, Len(s) - 1)) ELSE s

\* String.prototype.trim, as zod's .trim() applies it
trim(s) == trimEnd(trimStart(s))

\* value.replace(/\D/g, "")
stripNonDigits(value) == SelectSeq(value, LAMBDA c : c \in Digit)

(***************************************************************************)
(* formatPhone (the phone mask)                                            *)
(***************************************************************************)
formatPhone_NoTruncate(value) ==
    LET numbers == stripNonDigits(value) IN
    IF Len(numbers) <= 2
    THEN IF Len(numbers) # 0 THEN <<LPAREN>> \o numbers ELSE <<>>
    ELSE IF Len(numbers) <= 7
    THEN <<LPAREN>> \o slice(numbers, 0, 2) \o <<RPAREN, SPACE>> \o slice(numbers, 2, Len(numbers))
    ELSE <<LPAREN>> \o slice(numbers, 0, 2) \o <<RPAREN, SPACE>> \o slice(numbers, 2, 7)
             \o <<HYPHEN>> \o slice(numbers, 7, Len(numbers))

formatPhone_KeepRaw(value) ==
    LET numbers == stripNonDigits(value) IN
    IF Len(numbers) <= 2
    THEN IF Len(numbers) # 0 THEN <<LPAREN>> \o value ELSE <<>>
    ELSE IF Len(numbers) <= 7
    THEN <<LPAREN>> \o slice(numbers, 0, 2) \o <<RPAREN, SPACE>> \o slice(numbers, 2, Len(numbers))
    ELSE <<LPAREN>> \o slice(numbers, 0, 2) \o <<RPAREN, SPACE>> \o slice(numbers, 2, 7)
             \o <<HYPHEN>> \o slice(numbers, 7, 11)

formatPhone(value) ==
    LET numbers == stripNonDigits(value) IN
    IF Len(numbers) <= 2
    THEN IF Len(numbers) # 0 THEN <<LPAREN>> \o numbers ELSE <<>>
    ELSE IF Len(numbers) <= 7
    THEN <<LPAREN>> \o slice(numbers, 0, 2) \o <<RPAREN, SPACE>> \o slice(numbers, 2, Len(numbers))
    ELSE <<LPAREN>> \o slice(numbers, 0, 2) \o <<RPAREN, SPACE>> \o slice(numbers, 2, 7)
             \o <<HYPHEN>> \o slice(numbers, 7, 11)

(***************************************************************************)
(* registrationSchema (the zod validation rule set)                        *)
(* Each rule returns the message of the first issue, NoError when it passes*)
(***************************************************************************)
NoError == ""
MinNameLen == 2
MaxNameLen == 50
\* celular is not a registered input: without a default value it is undefined
\* in the form values until setValue stores a string
Undefined == << -1 >>

\* /^[a-zA-ZÀ-ÿ\s]+$/
nameRegex(t) == t # <<>> /\ \A i \in 1..Len(t) : t[i] \in NameCharClass

\* z.string().trim().min(2).max(50).regex(...): the checks run in order on the
\* trimmed text
nameRule(s) ==
    LET t == trim(s) IN
    IF Len(t) < MinNameLen THEN "min"
    ELSE IF Len(t) > MaxNameLen THEN "max"
    ELSE IF ~nameRegex(t) THEN "regex"
    ELSE NoError

AlphaNum == (97..122) \cup (65..90) \cup Digit
Alpha == (97..122) \cup (65..90)

RECURSIVE splitOn(_, _)
\* the pieces of s between occurrences of the character c
splitOn(s, c) ==
    IF \A i \in 1..Len(s) : s[i] # c THEN << s >>
    ELSE LET k == CHOOSE i \in 1..Len(s) : s[i] = c /\ \A j \in 1..(i - 1) : s[j] # c
         IN << SubSeq(s, 1, k - 1) >> \o splitOn(SubSeq(s, k + 1, Len(s)), c)

\* zod's email check:
\* /^(?!\.)(?!.*\.\.)([A-Z0-9_'+\-\.]*)[A-Z0-9_+-]@([A-Z0-9][A-Z0-9\-]*\.)+[A-Z]{2,}$/i
isEmail(t) ==
    LET parts == splitOn(t, AT) IN
    /\ Len(parts) = 2
    /\ LET local == parts[1]
           labels == splitOn(parts[2], DOT)
       IN /\ local # <<>>
          /\ local[1] # DOT
          /\ \A i \in 1..(Len(t) - 1) : ~(t[i] = DOT /\ t[i + 1] = DOT)
          /\ \A i \in 1..Len(local) : local[i] \in AlphaNum \cup {95, 39, 43, HYPHEN, DOT}
          /\ local[Len(local)] \in AlphaNum \cup {95, 43, HYPHEN}
          /\ Len(labels) >= 2
          /\ \A k \in 1..(Len(labels) - 1) :
                /\ labels[k] # <<>>
                /\ labels[k][1] \in AlphaNum
                /\ \A i \in 1..Len(labels[k]) : labels[k][i] \in AlphaNum \cup {HYPHEN}
          /\ LET tld == labels[Len(labels)]
             IN Len(tld) >= 2 /\ \A i \in 1..Len(tld) : tld[i] \in Alpha

\* ".takeat@"
TakeatToken == << DOT, 116, 97, 107, 101, 97, 116, AT >>

\* String.prototype.includes
includes(s, sub) ==
    \E i \in 0..(Len(s) - Len(sub)) : SubSeq(s, i + 1, i + Len(sub)) = sub

\* z.string().trim().email().refine(email => email.includes(".takeat@"))
emailRule(s) ==
    LET t == trim(s) IN
    IF ~isEmail(t) THEN "email"
    ELSE IF ~includes(t, TakeatToken) THEN "takeat"
    ELSE NoError

\* /^\(\d{2}\) \d{5}-\d{4}$/
celularRegex(s) ==
    /\ Len(s) = 15
    /\ s[1] = LPAREN /\ s[4] = RPAREN /\ s[5] = SPACE /\ s[11] = HYPHEN
    /\ \A i \in {2, 3} \cup (6..10) \cup (12..15) : s[i] \in Digit

\* z.string().regex(...)
celularRule(s) ==
    IF s = Undefined THEN "Required"
    ELSE IF ~celularRegex(s) THEN "format"
    ELSE NoError

(***************************************************************************)
(* Form controller: state                                                  *)
(***************************************************************************)
Fields == {"nome", "sobrenome", "email", "celular"}
\* the inputs bound with {...register(name)}; celular is bound by value/onChange
Registered == {"nome", "sobrenome", "email"}

SuccessMessage == "Cadastro enviado com sucesso!"
ErrorMessage == "Erro ao enviar. Tente novamente."

\* handleSubmit invocations that may await their resolver at the same time
MaxPending == 2
\* submits accepted in one run of the model
MaxSent == 2
\* maxLength={15} of the celular input
MaxPhoneInput == 15

\* texts a user may put into the inputs
Ana == << 65, 110, 97 >>
NomeChoices == { <<>>, << 65, 49 >>, << SPACE >> \o Ana }
SobrenomeChoices == { <<>>, << 76, 105 >> }
EmailOk == << 97, DOT, 116, 97, 107, 101, 97, 116, AT, 98, DOT, 99, 111 >>
EmailChoices == { <<>>, EmailOk \o << SPACE >>, << 97, AT, 98, DOT, 99, 111 >> }
PhoneDigits == << 49, 49, 57, 56, 55, 54, 53, 52, 51, 50, 49 >>
PhoneChoices == { <<>>, SubSeq(PhoneDigits, 1, 3), PhoneDigits \o << 57, 57, 57, 57 >> }

Choices(f) ==
    CASE f = "nome" -> NomeChoices
      [] f = "sobrenome" -> SobrenomeChoices
      [] f = "email" -> EmailChoices

\* the form values after mount and after reset(): registered inputs are empty,
\* celular has no value
defaultValues == [nome |-> <<>>, sobrenome |-> <<>>, email |-> <<>>, celular |-> Undefined]

noErrors == [f \in Fields |-> NoError]

fieldRule(f, v) ==
    CASE f = "nome" -> nameRule(v)
      [] f = "sobrenome" -> nameRule(v)
      [] f = "email" -> emailRule(v)
      [] f = "celular" -> celularRule(v)

zodResolver_SkipsCelular(data) ==
    [f \in Fields |-> IF f = "celular" THEN NoError ELSE fieldRule(f, data[f])]

\* zodResolver(registrationSchema): the first message of each failing field
zodResolver(data) == [f \in Fields |-> fieldRule(f, data[f])]

\* the data zod hands to onSubmit: .trim() transforms nome, sobrenome and email
parsed(data) ==
    [nome |-> trim(data.nome), sobrenome |-> trim(data.sobrenome),
     email |-> trim(data.email), celular |-> data.celular]

buildPayload_Masked(data) ==
    [nome |-> data.nome, sobrenome |-> data.sobrenome, email |-> data.email,
     celular |-> data.celular]

\* onSubmit, lines 80-88
buildPayload(data) ==
    LET celularNumbers == stripNonDigits(data.celular) IN
    [nome |-> data.nome, sobrenome |-> data.sobrenome, email |-> data.email,
     celular |-> celularNumbers]

\* watch("celular") || ""
celularValue == IF values.celular = Undefined THEN <<>> ELSE values.celular

NotApplied == [done |-> FALSE, val |-> <<>>]
NoRun == [data |-> defaultValues, payload |-> buildPayload(defaultValues), from |-> "idle"]

FormInit ==
    /\ values = defaultValues
    /\ errors = noErrors
    /\ isSubmitted = FALSE
    /\ submitStatus = "idle"
    /\ statusMessage = ""
    /\ pending = <<>>
    /\ pc = "none"
    /\ cur = NoRun
    /\ requests = <<>>

Init == FormInit /\ input = <<>> /\ output = NotApplied

(***************************************************************************)
(* Form controller: event handlers                                         *)
(* An event handler runs only when no other handler is running (pc "none").*)
(* handleSubmit awaits the resolver's promise, which settles before the    *)
(* next user input is handled; only further submit events raised before it *)
(* settles are handled in between. onSubmit itself contains no await.      *)
(***************************************************************************)

\* <Button type="submit" disabled={submitStatus === "loading"}>
disabled == submitStatus = "loading"

onChange_ResetsStatus(f, v) ==
    /\ pc = "none" /\ pending = <<>>
    /\ f \in Registered /\ v \in Choices(f) /\ v # values[f]
    /\ values' = [values EXCEPT ![f] = v]
    /\ errors' = IF isSubmitted THEN [errors EXCEPT ![f] = fieldRule(f, v)] ELSE errors
    /\ submitStatus' = IF submitStatus \in {"success", "error"} THEN "idle" ELSE submitStatus
    /\ UNCHANGED << isSubmitted, statusMessage, pending, pc, cur, requests,
                    input, output >>

onChange_Validates(f, v) ==
    /\ pc = "none" /\ pending = <<>>
    /\ f \in Registered /\ v \in Choices(f) /\ v # values[f]
    /\ values' = [values EXCEPT ![f] = v]
    /\ errors' = [errors EXCEPT ![f] = fieldRule(f, v)]
    /\ UNCHANGED << isSubmitted, submitStatus, statusMessage, pending, pc, cur, requests,
                    input, output >>

\* register(name).onChange under mode "onBlur" (reValidateMode defaults to
\* "onChange"): the value is stored; the field is validated only once the form
\* has been submitted
onChange(f, v) ==
    /\ pc = "none" /\ pending = <<>>
    /\ f \in Registered /\ v \in Choices(f) /\ v # values[f]
    /\ values' = [values EXCEPT ![f] = v]
    /\ errors' = IF isSubmitted THEN [errors EXCEPT ![f] = fieldRule(f, v)] ELSE errors
    /\ UNCHANGED << isSubmitted, submitStatus, statusMessage, pending, pc, cur, requests,
                    input, output >>

\* register(name).onBlur under mode "onBlur": validates the field until the form
\* has been submitted (afterwards validation moves to onChange)
onBlur(f) ==
    /\ pc = "none" /\ pending = <<>>
    /\ f \in Registered
    /\ errors' = IF isSubmitted THEN errors ELSE [errors EXCEPT ![f] = fieldRule(f, values[f])]
    /\ UNCHANGED << values, isSubmitted, submitStatus, statusMessage, pending, pc, cur,
                    requests, input, output >>

\* handlePhoneChange: setValue("celular", formatPhone(raw), { shouldValidate: true })
handlePhoneChange(raw) ==
    /\ pc = "none" /\ pending = <<>>
    /\ Len(raw) <= MaxPhoneInput
    /\ raw # celularValue
    /\ LET formatted == formatPhone(raw) IN
       /\ values' = [values EXCEPT !.celular = formatted]
       /\ errors' = [errors EXCEPT !.celular = celularRule(formatted)]
    /\ UNCHANGED << isSubmitted, submitStatus, statusMessage, pending, pc, cur, requests,
                    input, output >>

\* <form onSubmit={handleSubmit(onSubmit)}>: the submit event; the resolver is
\* called with the current form values and its promise is awaited
handleSubmit ==
    /\ pc = "none"
    /\ ~disabled
    /\ Len(pending) < MaxPending
    /\ Len(pending) + Len(requests) < MaxSent
    /\ pending' = Append(pending, [data |-> values, during |-> pending # <<>>])
    /\ UNCHANGED << values, errors, isSubmitted, submitStatus, statusMessage, pc, cur,
                    requests, input, output >>

\* handleSubmit after the await, validation failed: the errors are stored and
\* onSubmit is not called
onInvalid ==
    /\ pc = "none"
    /\ pending # <<>>
    /\ LET errs == zodResolver(Head(pending).data) IN
       /\ errs # noErrors
       /\ errors' = errs
    /\ isSubmitted' = TRUE
    /\ pending' = Tail(pending)
    /\ UNCHANGED << values, submitStatus, statusMessage, pc, cur, requests,
                    input, output >>

\* handleSubmit after the await, validation passed: onSubmit(data) starts,
\* lines 77-88
onSubmit ==
    /\ pc = "none"
    /\ pending # <<>>
    /\ zodResolver(Head(pending).data) = noErrors
    /\ errors' = noErrors
    /\ submitStatus' = "loading"
    /\ statusMessage' = ""
    /\ LET data == parsed(Head(pending).data) IN
       cur' = [data |-> data, payload |-> buildPayload(data), from |-> submitStatus]
    /\ pc' = "try"
    /\ UNCHANGED << values, isSubmitted, pending, requests, input, output >>

fetchReturns_NoReset ==
    /\ pc = "try"
    /\ requests' = Append(requests, [payload |-> cur.payload, source |-> Head(pending).data,
                                     during |-> Head(pending).during, state |-> "sent"])
    /\ submitStatus' = "success"
    /\ statusMessage' = SuccessMessage
    /\ isSubmitted' = TRUE
    /\ pending' = Tail(pending)
    /\ pc' = "none"
    /\ UNCHANGED << values, errors, cur, input, output >>

\* lines 92-104: fetch(...) returns its promise, which is dropped; then success
\* and reset(); handleSubmit then marks the form submitted
fetchReturns ==
    /\ pc = "try"
    /\ requests' = Append(requests, [payload |-> cur.payload, source |-> Head(pending).data,
                                     during |-> Head(pending).during, state |-> "sent"])
    /\ submitStatus' = "success"
    /\ statusMessage' = SuccessMessage
    /\ values' = defaultValues
    /\ errors' = noErrors
    /\ isSubmitted' = TRUE
    /\ pending' = Tail(pending)
    /\ pc' = "none"
    /\ UNCHANGED << cur, input, output >>

\* lines 105-108: an exception thrown inside the try block before fetch returns
fetchThrows ==
    /\ pc = "try"
    /\ submitStatus' = "error"
    /\ statusMessage' = ErrorMessage
    /\ isSubmitted' = TRUE
    /\ pending' = Tail(pending)
    /\ pc' = "none"
    /\ UNCHANGED << values, errors, cur, requests, input, output >>

Outcomes == {"response", "rejected"}

\* the requests whose promise has not settled
unsettled == { i \in 1..Len(requests) : requests[i].state = "sent" }

networkOutcome_Surfaced(i, o) ==
    /\ pc = "none"
    /\ o \in Outcomes
    /\ i \in unsettled
    /\ requests' = [requests EXCEPT ![i].state = o]
    /\ submitStatus' = IF o = "rejected" THEN "error" ELSE submitStatus
    /\ statusMessage' = IF o = "rejected" THEN ErrorMessage ELSE statusMessage
    /\ UNCHANGED << values, errors, isSubmitted, pending, pc, cur, input, output >>

\* the promise returned by fetch settles (line 92: nothing awaits or handles it)
networkOutcome(i, o) ==
    /\ pc = "none"
    /\ o \in Outcomes
    /\ i \in unsettled
    /\ requests' = [requests EXCEPT ![i].state = o]
    /\ UNCHANGED << values, errors, isSubmitted, submitStatus, statusMessage, pending,
                    pc, cur, input, output >>

Next ==
    \/ \E f \in Registered : \E v \in Choices(f) : onChange(f, v)
    \/ \E f \in Registered : onBlur(f)
    \/ \E raw \in PhoneChoices \cup {formatPhone(r) : r \in PhoneChoices} : handlePhoneChange(raw)
    \/ handleSubmit
    \/ onInvalid
    \/ onSubmit
    \/ fetchReturns
    \/ fetchThrows
    \/ \E i \in 1..MaxSent : \E o \in Outcomes : networkOutcome(i, o)

Spec == Init /\ [][Next]_vars

(***************************************************************************)
(* formatPhone on its own: the inputs are drawn from a bounded set and the *)
(* function is applied to them, and to its own results                     *)
(***************************************************************************)
\* longest raw text given to formatPhone
MaxRawLen == 14

\* "11987654321999"
ExampleDigits == PhoneDigits \o << 57, 57, 57 >>
Separators == << LPAREN, RPAREN, SPACE, HYPHEN, 97 >>
digitAt(k) == ExampleDigits[((k - 1) % Len(ExampleDigits)) + 1]
separatorAt(k) == Separators[((k - 1) % Len(Separators)) + 1]

\* every text of up to MaxRawLen characters whose k-th character is either the
\* k-th example digit or a non-digit
PhoneInputs(maxLen) ==
    UNION { { [k \in 1..n |-> IF b[k] THEN digitAt(k) ELSE separatorAt(k)] :
                b \in [1..n -> BOOLEAN] } : n \in 0..maxLen }

InitPhone == FormInit /\ input \in PhoneInputs(MaxRawLen) /\ output = NotApplied

applyFormatPhone ==
    /\ ~output.done
    /\ output' = [done |-> TRUE, val |-> formatPhone(input)]
    /\ UNCHANGED << formVars, input >>

\* the formatted text is what the input shows, and so what the next call receives
refeed ==
    /\ output.done
    /\ output.val # input
    /\ input' = output.val
    /\ output' = NotApplied
    /\ UNCHANGED formVars

NextPhone == applyFormatPhone \/ refeed

SpecPhone == InitPhone /\ [][NextPhone]_vars

(***************************************************************************)
(* The name rule on its own                                                *)
(***************************************************************************)
\* characters at the two ends of a name under check
MaxEdge == 2
\* letters between the two ends
MaxRun == 52

\* a, Z, e-acute (U+00E9), multiplication sign (U+00D7), space, tab, 1, hyphen
NameAlphabet == { 97, 90, 233, 215, SPACE, 9, 49, HYPHEN }

Texts(n) == UNION { [1..k -> NameAlphabet] : k \in 0..n }
letters(n) == [k \in 1..n |-> 97]

\* up to maxEdge characters, then up to maxRun letters, then up to one character
NameInputs(maxEdge, maxRun) ==
    { p \o letters(n) \o q : p \in Texts(maxEdge), n \in 0..maxRun, q \in Texts(1) }

InitName == FormInit /\ input \in NameInputs(MaxEdge, MaxRun) /\ output = NotApplied

applyNameRule ==
    /\ ~output.done
    /\ output' = [done |-> TRUE, val |-> nameRule(input)]
    /\ UNCHANGED << formVars, input >>

NextName == applyNameRule

SpecName == InitName /\ [][NextName]_vars

(***************************************************************************)
(* Claims about the pure functions                                         *)
(***************************************************************************)

\* C7: formatPhone is idempotent: applied to its own result it returns that
\* result, for every input
C7_FormatPhoneIdempotent ==
    output.done => formatPhone(output.val) = output.val

\* formatPhone has been applied to a text of more than 11 digits that it changed
C7_Witness ==
    /\ output.done
    /\ Len(stripNonDigits(input)) > 11
    /\ output.val # input

\* C8: with d the digits of the input in order, formatPhone returns "" for no
\* digit, "(" d for 1-2 digits, "(DD) " and the remaining digits for 3-7 digits,
\* and "(DD) DDDDD-" and digits 8 to 11 of d for 8 or more digits
C8_FormatPhoneCases ==
    output.done =>
        LET d == stripNonDigits(input)
            n == Len(d)
            out == output.val
        IN /\ n = 0 => out = <<>>
           /\ n \in 1..2 => out = << LPAREN >> \o d
           /\ n \in 3..7 =>
                out = << LPAREN, d[1], d[2], RPAREN, SPACE >> \o SubSeq(d, 3, n)
           /\ n >= 8 =>
                /\ out = << LPAREN, d[1], d[2], RPAREN, SPACE, d[3], d[4], d[5], d[6], d[7],
                            HYPHEN >> \o SubSeq(d, 8, Min(n, 11))
                /\ Len(stripNonDigits(out)) <= 11
           /\ input = ExampleDigits =>
                out = << LPAREN, 49, 49, RPAREN, SPACE, 57, 56, 55, 54, 53, HYPHEN,
                         52, 51, 50, 49 >>

\* formatPhone has been applied to "11987654321999"
C8_Witness ==
    /\ output.done
    /\ input = ExampleDigits
    /\ Len(output.val) = 15

\* letters: a-z, A-Z and the accented Latin letters of U+00C0..U+00FF (the range
\* without the multiplication sign U+00D7 and the division sign U+00F7)
Letter == (97..122) \cup (65..90) \cup ((192..255) \ {215, 247})

\* C9: the name rule accepts a text exactly when, trimmed, it has 2 to 50
\* characters and each of them is a letter or a space
C9_NameRuleLettersAndSpaces ==
    output.done =>
        LET t == trim(input) IN
        (output.val = NoError) <=>
            /\ Len(t) >= 2 /\ Len(t) <= 50
            /\ \A i \in 1..Len(t) : t[i] \in Letter \cup { SPACE }

(***************************************************************************)
(* Claims about the form controller                                        *)
(***************************************************************************)
\* all four fields satisfy their validation rule
allRulesPass(data) ==
    /\ nameRule(data.nome) = NoError
    /\ nameRule(data.sobrenome) = NoError
    /\ emailRule(data.email) = NoError
    /\ celularRule(data.celular) = NoError

Terminal == {"success", "error"}
\* a field edit: a handler that stores a new field value (reset() runs inside
\* onSubmit, at pc "try")
isEdit == pc = "none" /\ values' # values

\* C1: the status is loading, and a request is issued, only for a submit whose
\* four fields all satisfied their rule; a submit with a failing field leaves
\* the status alone and issues nothing
C1_DispatchOnlyWhenValid ==
    /\ submitStatus = "loading" => pc = "try"
    /\ pc = "try" => pending # <<>> /\ allRulesPass(Head(pending).data)
    /\ \A i \in 1..Len(requests) : allRulesPass(requests[i].source)

\* a request has been issued, and after it a submit of the emptied form failed
\* validation (celular "Required") with the status still success
C1_Witness ==
    /\ Len(requests) = 1
    /\ submitStatus = "success"
    /\ errors.celular = "Required"

\* C2: issuing a request makes the status success; the settling of a request
\* (response or rejection) changes neither status nor message; the status
\* becomes error only inside onSubmit's try block, with no request issued
C2_FireAndForget ==
    [][ /\ Len(requests') > Len(requests) =>
              submitStatus' = "success" /\ statusMessage' = SuccessMessage
        /\ (Len(requests') = Len(requests) /\ requests' # requests) =>
              submitStatus' = submitStatus /\ statusMessage' = statusMessage
        /\ (submitStatus' = "error" /\ submitStatus # "error") =>
              pc = "try" /\ requests' = requests /\ statusMessage' = ErrorMessage
      ]_vars

\* a request was rejected by the network and the status still reports success
C2_Witness ==
    /\ submitStatus = "success"
    /\ statusMessage = SuccessMessage
    /\ \E i \in 1..Len(requests) : requests[i].state = "rejected"

\* the end of an onSubmit run that started from idle, as C3 describes it
validSubmitSucceeds ==
    /\ submitStatus' = "success"
    /\ statusMessage' = SuccessMessage
    /\ Len(requests') = Len(requests) + 1
    /\ requests'[Len(requests')].payload = cur.payload
    /\ values'.nome = <<>> /\ values'.sobrenome = <<>> /\ values'.email = <<>>
    /\ celularValue' = <<>>

\* C3 as stated: a submit with four valid fields from idle goes idle -> loading
\* -> success, issues one request, sets the confirmation and clears the fields
C3_ValidSubmitSucceeds ==
    [][ /\ (pc = "none" /\ pc' = "try") => submitStatus' = "loading"
        /\ (pc = "try" /\ pc' = "none" /\ cur.from = "idle") => validSubmitSucceeds
      ]_vars

\* C3 amended: ... unless the call of fetch throws, in which case the run goes
\* idle -> loading -> error, issues no request, sets the error message and keeps
\* the field values
C3_ValidSubmitSucceedsOrThrows ==
    [][ /\ (pc = "none" /\ pc' = "try") =>
              /\ submitStatus' = "loading" /\ statusMessage' = ""
              /\ allRulesPass(Head(pending).data)
              /\ cur'.from = submitStatus
        /\ (pc = "try" /\ pc' = "none" /\ cur.from = "idle") =>
              \/ validSubmitSucceeds
              \/ /\ submitStatus' = "error"
                 /\ statusMessage' = ErrorMessage
                 /\ requests' = requests
                 /\ values' = values
      ]_vars

\* a submit from idle has ended in success with its one request and empty fields
C3_Witness ==
    /\ pc = "none"
    /\ cur.from = "idle"
    /\ submitStatus = "success"
    /\ Len(requests) = 1
    /\ values = defaultValues

C6_PayloadShape ==
    \A i \in 1..Len(requests) :
        LET payload == requests[i].payload
            source == requests[i].source
        IN /\ Len(payload.celular) = 11
           /\ \A k \in 1..Len(payload.celular) : payload.celular[k] \in Digit
           /\ payload.celular = stripNonDigits(source.celular)
           /\ payload.nome = trim(source.nome)
           /\ payload.sobrenome = trim(source.sobrenome)
           /\ payload.email = trim(source.email)

\* a payload was issued whose nome and email differ from the texts typed (they
\* were trimmed) and whose celular lost its mask
C6_Witness ==
    \E i \in 1..Len(requests) :
        /\ requests[i].payload.nome # requests[i].source.nome
        /\ requests[i].payload.email # requests[i].source.email
        /\ requests[i].payload.celular # requests[i].source.celular

\* C10 as stated: an edit never changes a field's error message
C10_EditNeverValidates ==
    [][ isEdit => errors' = errors ]_vars

\* C10 amended: an edit of nome, sobrenome or email leaves every error message
\* alone until the form has been submitted, and from then on re-validates the
\* edited field; an edit of celular always validates celular
C10_EditValidation ==
    [][ isEdit =>
          IF values'.celular # values.celular
          THEN errors' = [errors EXCEPT !.celular = celularRule(values'.celular)]
          ELSE IF ~isSubmitted
          THEN errors' = errors
          ELSE \E f \in Registered :
                  /\ values'[f] # values[f]
                  /\ errors' = [errors EXCEPT ![f] = fieldRule(f, values'[f])]
      ]_vars

\* before any submit: celular shows its format error (it has no blur handler),
\* while the invalid nome "A1" shows none
C10_Witness ==
    /\ ~isSubmitted
    /\ errors.celular = "format"
    /\ values.nome = << 65, 49 >>
    /\ errors.nome = NoError

====
